---- MODULE Spec2Model ----
(***************************************************************************)
(* A model of knuverse/knufactor.py: the Knufactor session (bearer token,  *)
(* time of the last authentication, default headers), the _auth guard      *)
(* wrapped around the protected operations, the transport helpers and the  *)
(* status check, and a set of the public operations built on them.         *)
(*                                                                         *)
(* One call runs at a time (the library is synchronous).  A call is cut    *)
(* into steps at the points where it waits for the server.  The clock is   *)
(* read in two places only, the guard and the end of auth_refresh, so it   *)
(* advances between calls and while the authentication request is in       *)
(* flight; time spent waiting for any other response is the same as time   *)
(* spent after the call.  The server is an input: every response draws its *)
(* status and body from small sets; the body of a response whose status    *)
(* fails the check is never decoded, so one body stands for all of them.   *)
(*                                                                         *)
(* A second specification, SpecMT, lets two threads call on one session;   *)
(* there the statements of the guard and of auth_refresh interleave.       *)
(***************************************************************************)
EXTENDS Integers, Sequences, FiniteSets, TLC

VARIABLES
    _auth_token,    \* self._auth_token
    _last_auth,     \* self._last_auth
    _headers,       \* self._headers
    clock,          \* datetime.utcnow(), in minutes
    pc,             \* position of the running call
    frames,         \* the operations being executed, outermost first
    args,           \* arguments of the running call
    client,         \* local variable `client` of a client-addressed operation
    reqs,           \* requests issued by the running call, in order
    resps,          \* responses received by the running call, in order
    result,         \* outcome of the running call
    pre,            \* session and clock at the start of the running call
    _server,        \* self._server
    _apikey,        \* self._apikey
    _secret,        \* self._secret
    handles,        \* files opened by the running call and still open
    prev,           \* the previous call, when it failed to find its client
    tpc,            \* two threads sharing the session: position of each
    tjwt,           \* two threads: local variable `jwt` of auth_refresh
    treqs           \* two threads: requests issued by each thread's call

vars == <<_auth_token, _last_auth, _headers, clock, pc, frames, args, client,
          reqs, resps, result, pre, _server, _apikey, _secret, handles, prev,
          tpc, tjwt, treqs>>

session == <<_auth_token, _last_auth, _headers>>

config == <<_server, _apikey, _secret>>

mt == <<tpc, tjwt, treqs>>

(***************************************************************************)
(* Bounds and program constants                                            *)
(***************************************************************************)
MaxClock == 11

TokenLifetime == 10

IdLen == 32

NoTime == -1

(***************************************************************************)
(* Python values                                                           *)
(***************************************************************************)
None == "None"

Truthy(v) == v # None /\ v # ""

OrElse(a, b) == IF Truthy(a) THEN a ELSE b

EmptyDict == [k \in {} |-> k]

NoneDict == [py_none |-> TRUE]

DictOrEmpty(d) == IF d = NoneDict \/ d = EmptyDict THEN EmptyDict ELSE d

DictUpdate(d, other) == other @@ d

Rep(c, n) == [i \in 1..n |-> c]

NoId == <<>>

TruthyStr(s) == Len(s) > 0

(***************************************************************************)
(* data/url.py                                                             *)
(***************************************************************************)
Format(tmpl, id) == [tmpl |-> tmpl, id |-> id]

url_auth == Format("auth", NoId)

url_clients == Format("clients", NoId)

url_clients_id(id) == Format("clients/{id}", id)

url_enrollments == Format("enrollments", NoId)

url_about == Format("about", NoId)

url_status == Format("status", NoId)

url_reports_events_clients == Format("reports/events/clients", NoId)

url_reports_events_system == Format("reports/events/system", NoId)

url_reports_verifications == Format("reports/verifications", NoId)

url_enrollments_id(id) == Format("enrollments/{id}", id)

url_verifications == Format("verifications", NoId)

url_verifications_id(id) == Format("verifications/{id}", id)

url_settings_modules == Format("settings/modules", NoId)

url_settings_system == Format("settings/system", NoId)

url_events_logins == Format("events/logins", NoId)

url_events_system == Format("events/system", NoId)

\* The names the module defines, each with its path
url == [auth |-> "auth", auth_refresh |-> "auth/refresh",
        clients |-> "clients", clients_id |-> "clients/{id}",
        enrollments |-> "enrollments", enrollments_id |-> "enrollments/{id}",
        events |-> "events", events_clients |-> "events/clients",
        events_clients_id |-> "events/clients/{id}",
        events_logins |-> "events/logins", events_system |-> "events/system",
        about |-> "about", status |-> "status", status_warnings |-> "status/warnings",
        settings_modules |-> "settings/modules", settings_system |-> "settings/system",
        productkey |-> "productkey",
        reports_events_clients |-> "reports/events/clients",
        reports_events_system |-> "reports/events/system",
        reports_verifications |-> "reports/verifications",
        verifications |-> "verifications", verifications_id |-> "verifications/{id}"]

\* url.<name>
url_getattr(name) ==
    IF name \in DOMAIN url THEN [exc |-> "ok", val |-> Format(url[name], NoId)]
    ELSE [exc |-> "AttributeError"]

(***************************************************************************)
(* Inputs                                                                  *)
(***************************************************************************)
StatusCodes == {200, 201, 202, 204, 302, 400, 401, 403, 404, 418, 429, 500}

JwtVals == {"t1", "t2"}

ServerId == Rep("b", IdLen)

HexChars == {"a", "b", "c", "d", "e", "f",
             "0", "1", "2", "3", "4", "5", "6", "7", "8", "9"}

ClientArgs == { Rep("a", IdLen),
                <<"a", "l", "i", "c", "e">>,
                Rep("a", IdLen + 1),
                Rep("a", IdLen - 1),
                Rep("a", IdLen - 1) \o <<",">>,
                Rep("a", IdLen - 1) \o <<"g">> }

Bearer(jwt) == <<"Bearer", jwt>>

InitHeaders == [Accept |-> "application/json"]

NoJson == [json |-> FALSE]

JsonObj(fields) == [json |-> TRUE, fields |-> fields]

AuthBodies == {NoJson, JsonObj(EmptyDict)} \cup {JsonObj([jwt |-> j]) : j \in JwtVals}

LookupBodies == {NoJson, JsonObj(EmptyDict), JsonObj([client_id |-> ServerId])}

DataBodies == {NoJson, JsonObj([state |-> "enrolled"])}

EventBodies == {NoJson, JsonObj(EmptyDict), JsonObj([events |-> "e1"])}

(***************************************************************************)
(* Transport: _get, _post, _put (the request each one hands to requests)   *)
(***************************************************************************)
Request(method, uri, params, json, files, headers) ==
    [method |-> method, base |-> _server, uri |-> uri, params |-> params,
     json |-> json, files |-> files, headers |-> headers]

\* the merge the other way round: the caller's headers win
_get_caller_wins(uri, params, headers) ==
    Request("GET", uri, params, NoneDict, NoneDict,
            DictUpdate(_headers, DictOrEmpty(headers)))

_get(uri, params, headers) ==
    Request("GET", uri, params, NoneDict, NoneDict,
            DictUpdate(DictOrEmpty(headers), _headers))

_post(uri, body, headers) ==
    Request("POST", uri, NoneDict, body, NoneDict,
            DictUpdate(DictUpdate(DictOrEmpty(headers), _headers),
                       ("Content-type" :> "application/json")))

\* _put setting the content type as _post does
_put_json(uri, body, files, headers) ==
    Request("PUT", uri, NoneDict, body, files,
            DictUpdate(DictUpdate(DictOrEmpty(headers), _headers),
                       ("Content-type" :> "application/json")))

_put(uri, body, files, headers) ==
    Request("PUT", uri, NoneDict, body, files,
            DictUpdate(DictOrEmpty(headers), _headers))

_delete(uri, body, headers) ==
    Request("DELETE", uri, NoneDict, body, NoneDict,
            DictUpdate(DictOrEmpty(headers), _headers))

\* requests.<method>(url, json=..., files=..., headers=...): the content type
\* requests gives the body it builds, multipart for `files`, JSON for `json`
content_type(r) ==
    IF r.files # NoneDict /\ r.files # EmptyDict THEN "multipart/form-data"
    ELSE IF r.json # NoneDict THEN "application/json"
    ELSE None

\* The headers the request goes out with: requests adds the content type of
\* the body unless the headers it was handed name one
sent_headers(r) ==
    IF content_type(r) # None /\ "Content-type" \notin DOMAIN r.headers
    THEN DictUpdate(r.headers, ("Content-Type" :> content_type(r)))
    ELSE r.headers

(***************************************************************************)
(* _create_response, _check_response                                       *)
(***************************************************************************)
_create_response(body) == IF body.json THEN body.fields ELSE NoneDict

\* the status check without its 429 branch (the older variant of the SDK)
_check_response_no429(response_code, expected) ==
    IF expected = response_code THEN "ok"
    ELSE IF response_code < 400 THEN "UnexpectedResponseCodeException"
    ELSE IF response_code = 401 THEN "UnauthorizedException"
    ELSE IF response_code = 400 THEN "BadRequestException"
    ELSE IF response_code = 403 THEN "ForbiddenException"
    ELSE IF response_code = 404 THEN "NotFoundException"
    ELSE "InternalServerErrorException"

_check_response(response_code, expected) ==
    IF expected = response_code THEN "ok"
    ELSE IF response_code < 400 THEN "UnexpectedResponseCodeException"
    ELSE IF response_code = 401 THEN "UnauthorizedException"
    ELSE IF response_code = 400 THEN "BadRequestException"
    ELSE IF response_code = 403 THEN "ForbiddenException"
    ELSE IF response_code = 404 THEN "NotFoundException"
    ELSE IF response_code = 429 THEN "RateLimitedException"
    ELSE "InternalServerErrorException"

GetStr(d, k) == IF k \in DOMAIN d THEN d[k] ELSE None

GetId(d, k) == IF k \in DOMAIN d THEN d[k] ELSE NoId

(***************************************************************************)
(* Outcomes of a call                                                      *)
(***************************************************************************)
NoResult == [kind |-> "none"]

Raised(exc) == [kind |-> "raise", exc |-> exc]

Returned(val) == [kind |-> "return", val |-> val]

ValNone == [t |-> "None"]

ValBody(d) == [t |-> "dict", d |-> d]

ValId(id) == IF id = NoId THEN ValNone ELSE [t |-> "str", s |-> id]

Response(status, body) == [status |-> status, body |-> body]

\* The bodies a response of this status may carry, for a request expecting `expected`
BodiesFor(status, expected, bodies) == IF status = expected THEN bodies ELSE {NoJson}

Top(s) == s[Len(s)]

Last(s) == s[Len(s)]

(***************************************************************************)
(* The _auth guard and the _client_id format check                         *)
(***************************************************************************)
\* the guard without its test of the token's age
_auth_always == "refresh"

\* the comparison written as the docstring has it: "if > 10 minutes have elapsed"
_auth_strict ==
    IF ~Truthy(_auth_token) THEN "refresh"
    ELSE IF _last_auth = NoTime THEN "TypeError"
    ELSE IF clock > _last_auth + TokenLifetime THEN "refresh"
    ELSE "proceed"

_auth ==
    IF ~Truthy(_auth_token) THEN "refresh"
    ELSE IF _last_auth = NoTime THEN "TypeError"
    ELSE IF clock >= _last_auth + TokenLifetime THEN "refresh"
    ELSE "proceed"

re_match(s) ==
    /\ Len(s) >= IdLen
    /\ \A i \in 1..IdLen : s[i] \in HexChars \cup {","}

auth_token(apikey, secret) ==
    _post(url_auth,
          [key_id |-> OrElse(apikey, _apikey), secret |-> OrElse(secret, _secret)],
          NoneDict)

\* auth_refresh without line 183: the header is left as it was
auth_refresh_headers_kept(jwt) == _headers

\* _client_id without its `if not client` test
_client_id_unchecked(id) == "ok"

\* `if not client: raise ex.NotFoundException(...)` of _client_id
_client_id_check(id) == IF ~TruthyStr(id) THEN "NotFoundException" ELSE "ok"

auth_refresh_headers(jwt) == DictUpdate(_headers, [Authorization |-> Bearer(jwt)])

(***************************************************************************)
(* _format_input_dates                                                     *)
(***************************************************************************)
DateTime(y, mo, d, h, mi, sec) ==
    [type |-> "datetime", y |-> y, mo |-> mo, d |-> d, h |-> h, mi |-> mi, sec |-> sec]

DateInputs == {DateTime(2016, 1, 2, 3, 4, 5), [type |-> "str", text |-> "2016-01-02"]}

isinstance_datetime(v) == v.type = "datetime"

Pad2(n) == IF n < 10 THEN "0" \o ToString(n) ELSE ToString(n)

strftime(v) ==
    ToString(v.y) \o "-" \o Pad2(v.mo) \o "-" \o Pad2(v.d) \o " "
        \o Pad2(v.h) \o ":" \o Pad2(v.mi) \o ":" \o Pad2(v.sec)

\* the type test with `and` for `or`: strftime then fails on the value that is no datetime
_format_input_dates_and(start_date, end_date) ==
    IF ~isinstance_datetime(start_date) /\ ~isinstance_datetime(end_date)
    THEN [exc |-> "TypeError"]
    ELSE [exc |-> "AttributeError"]

_format_input_dates(start_date, end_date) ==
    IF ~isinstance_datetime(start_date) \/ ~isinstance_datetime(end_date)
    THEN [exc |-> "TypeError"]
    ELSE [exc |-> "ok", start_str |-> strftime(start_date), end_str |-> strftime(end_date)]

(***************************************************************************)
(* Initial state: Knufactor.__init__                                       *)
(***************************************************************************)
NoPre == [none |-> TRUE]

NoPrev == [none |-> TRUE]

Threads == {1, 2}

Init ==
    /\ _server = "https://cloud.knuverse.com/api/v1/"
    /\ _apikey = "APIKEY"
    /\ _secret = "SECRET"
    /\ handles = {}
    /\ prev = NoPrev
    /\ tpc = [t \in Threads |-> "idle"]
    /\ tjwt = [t \in Threads |-> None]
    /\ treqs = [t \in Threads |-> <<>>]
    /\ _auth_token = None
    /\ _last_auth = NoTime
    /\ _headers = InitHeaders
    /\ clock = 0
    /\ pc = "idle"
    /\ frames = <<>>
    /\ args = EmptyDict
    /\ client = NoId
    /\ reqs = <<>>
    /\ resps = <<>>
    /\ result = NoResult
    /\ pre = NoPre

(***************************************************************************)
(* Steps shared by the operations                                          *)
(***************************************************************************)
ClientAddressed == {"client_info", "client_validate_pin"}

Finish(r) == result' = r /\ pc' = "done"

Send(req, next) == reqs' = Append(reqs, req) /\ pc' = next

Call(op, a, protected) ==
    /\ pc = "idle"
    /\ frames' = <<op>>
    /\ args' = a
    /\ pc' = IF protected THEN "guard" ELSE "body"
    /\ pre' = [token |-> _auth_token, last_auth |-> _last_auth,
               headers |-> _headers, guard |-> _auth]
    /\ prev' = IF prev # NoPrev /\ prev.op = op /\ prev.args = a THEN prev ELSE NoPrev
    /\ UNCHANGED <<session, clock, client, reqs, resps, result, handles, config, mt>>

\* The wrapper `method` of the _auth decorator, up to the request of auth_refresh.
Guard ==
    /\ pc = "guard"
    /\ CASE _auth = "refresh" ->
                /\ Send(auth_token(None, None), "auth_wait")
                /\ UNCHANGED result
         [] _auth = "proceed" ->
                /\ pc' = "body"
                /\ UNCHANGED <<reqs, result>>
         [] OTHER ->
                /\ Finish(Raised("TypeError"))
                /\ UNCHANGED reqs
    /\ UNCHANGED <<session, clock, frames, args, client, resps, pre, handles, prev, config, mt>>

\* auth_refresh taking the time before it has the token: a failed
\* authentication then leaves its time behind
AuthRecv_stamped ==
    /\ pc = "auth_wait"
    /\ \E status \in StatusCodes : \E body \in BodiesFor(status, 200, AuthBodies) :
         LET chk == _check_response(status, 200)
             r   == _create_response(body)
         IN  /\ resps' = Append(resps, Response(status, body))
             /\ _last_auth' = clock
             /\ IF chk # "ok"
                THEN Finish(Raised(chk)) /\ UNCHANGED <<_auth_token, _headers>>
                ELSE IF r = NoneDict
                THEN Finish(Raised("AttributeError")) /\ UNCHANGED <<_auth_token, _headers>>
                ELSE LET jwt == GetStr(r, "jwt")
                     IN  /\ _headers' = auth_refresh_headers(jwt)
                         /\ _auth_token' = jwt
                         /\ IF Top(frames) = "auth_refresh"
                            THEN Finish(Returned(ValNone))
                            ELSE pc' = "body" /\ UNCHANGED result
    /\ UNCHANGED <<clock, frames, args, client, reqs, pre, handles, prev, config, mt>>

\* The response to POST auth: the rest of auth_token and of auth_refresh.
AuthRecv ==
    /\ pc = "auth_wait"
    /\ \E status \in StatusCodes : \E body \in BodiesFor(status, 200, AuthBodies) :
         LET chk == _check_response(status, 200)
             r   == _create_response(body)
         IN  /\ resps' = Append(resps, Response(status, body))
             /\ IF chk # "ok"
                THEN Finish(Raised(chk)) /\ UNCHANGED session
                ELSE IF r = NoneDict
                THEN Finish(Raised("AttributeError")) /\ UNCHANGED session
                ELSE LET jwt == GetStr(r, "jwt")
                     IN  /\ _headers' = auth_refresh_headers(jwt)
                         /\ _auth_token' = jwt
                         /\ _last_auth' = clock
                         /\ IF Top(frames) = "auth_refresh"
                            THEN Finish(Returned(ValNone))
                            ELSE pc' = "body" /\ UNCHANGED result
    /\ UNCHANGED <<clock, frames, args, client, reqs, pre, handles, prev, config, mt>>

ValOf(r) == IF r = NoneDict THEN ValNone ELSE ValBody(r)

\* self._check_response(response, expected); return self._create_response(response)
RecvWhole(op, expected, bodies) ==
    /\ pc = "wait"
    /\ Top(frames) = op
    /\ \E status \in StatusCodes : \E body \in BodiesFor(status, expected, bodies) :
         LET chk == _check_response(status, expected)
         IN  /\ resps' = Append(resps, Response(status, body))
             /\ Finish(IF chk # "ok" THEN Raised(chk)
                       ELSE Returned(ValOf(_create_response(body))))
    /\ UNCHANGED <<session, clock, frames, args, client, reqs, pre, handles, prev, config, mt>>

\* self._check_response(response, expected), nothing returned
RecvNothing(op, expected, bodies) ==
    /\ pc = "wait"
    /\ Top(frames) = op
    /\ \E status \in StatusCodes : \E body \in BodiesFor(status, expected, bodies) :
         LET chk == _check_response(status, expected)
         IN  /\ resps' = Append(resps, Response(status, body))
             /\ Finish(IF chk # "ok" THEN Raised(chk) ELSE Returned(ValNone))
    /\ UNCHANGED <<session, clock, frames, args, client, reqs, pre, handles, prev, config, mt>>

\* The running call looked its client up by name and raised NotFound
LookupNotFound ==
    /\ frames[1] \in ClientAddressed
    /\ result = Raised("NotFoundException")
    /\ reqs # <<>> /\ Len(resps) = Len(reqs)
    /\ Last(reqs).uri = url_clients

\* The token the running call started with is still fresh
FreshAtStart ==
    /\ Truthy(pre.token)
    /\ pre.last_auth # NoTime
    /\ clock < pre.last_auth + TokenLifetime

Tick ==
    /\ pc \in {"idle", "auth_wait"}
    /\ clock < MaxClock
    /\ clock' = clock + 1
    /\ UNCHANGED <<session, pc, frames, args, client, reqs, resps, result, pre, handles, prev, config, mt>>

Return ==
    /\ pc = "done"
    /\ pc' = "idle"
    /\ frames' = <<>>
    /\ args' = EmptyDict
    /\ client' = NoId
    /\ reqs' = <<>>
    /\ resps' = <<>>
    /\ result' = NoResult
    /\ pre' = NoPre
    /\ handles' = {}
    /\ prev' = IF LookupNotFound /\ FreshAtStart
               THEN [op |-> frames[1], args |-> args, lookup |-> Last(resps),
                     unchanged |-> (session = <<pre.token, pre.last_auth, pre.headers>>)]
               ELSE NoPrev
    /\ UNCHANGED <<session, clock, config, mt>>

(***************************************************************************)
(* Direct use of the transport with caller-supplied headers                *)
(***************************************************************************)
CallerHeaders == { NoneDict,
                   [Accept |-> "text/html", Authorization |-> Bearer("forged")],
                   ("X-Trace" :> "1") }

Call__get == \E h \in CallerHeaders : Call("_get", [headers |-> h], FALSE)

\* _get merging the caller's headers into the session's own dictionary
Send__get_leaky ==
    /\ pc = "body"
    /\ Top(frames) = "_get"
    /\ _headers' = DictUpdate(_headers, DictOrEmpty(args.headers))
    /\ Send(_get(url_status, NoneDict, args.headers), "wait")
    /\ UNCHANGED <<_auth_token, _last_auth, clock, frames, args, client, resps, result, pre,
                   handles, prev, config, mt>>

Send__get ==
    /\ pc = "body"
    /\ Top(frames) = "_get"
    /\ Send(_get(url_status, NoneDict, args.headers), "wait")
    /\ UNCHANGED <<session, clock, frames, args, client, resps, result, pre, handles, prev, config, mt>>

Call__post == \E h \in CallerHeaders : Call("_post", [headers |-> h], FALSE)

Send__post ==
    /\ pc = "body"
    /\ Top(frames) = "_post"
    /\ Send(_post(url_enrollments, NoneDict, args.headers), "wait")
    /\ UNCHANGED <<session, clock, frames, args, client, resps, result, pre, handles, prev, config, mt>>

\* _get and _post return the response object unchecked
Recv_transport ==
    /\ pc = "wait"
    /\ Top(frames) \in {"_get", "_post"}
    /\ \E status \in StatusCodes :
         /\ resps' = Append(resps, Response(status, NoJson))
         /\ Finish(Returned([t |-> "response", status |-> status]))
    /\ UNCHANGED <<session, clock, frames, args, client, reqs, pre, handles, prev, config, mt>>

(***************************************************************************)
(* auth_refresh called by the user                                         *)
(***************************************************************************)
Call_auth_refresh ==
    \E cred \in {<<None, None>>, <<"KEY2", "SECRET2">>} :
        Call("auth_refresh", [apikey |-> cred[1], secret |-> cred[2]], FALSE)

Send_auth_refresh ==
    /\ pc = "body"
    /\ Top(frames) = "auth_refresh"
    /\ Send(auth_token(args.apikey, args.secret), "auth_wait")
    /\ UNCHANGED <<session, clock, frames, args, client, resps, result, pre, handles, prev, config, mt>>

(***************************************************************************)
(* about, status, enrollment_start                                         *)
(***************************************************************************)
\* about() under the @_auth decorator, like its neighbours status() and warnings()
Call_about_protected == Call("about", EmptyDict, TRUE)

Call_about == Call("about", EmptyDict, FALSE)

Send_about ==
    /\ pc = "body"
    /\ Top(frames) = "about"
    /\ Send(_get(url_about, NoneDict, NoneDict), "wait")
    /\ UNCHANGED <<session, clock, frames, args, client, resps, result, pre, handles, prev, config, mt>>

Recv_about == RecvWhole("about", 200, DataBodies)

Call_status == Call("status", EmptyDict, TRUE)

Send_status ==
    /\ pc = "body"
    /\ Top(frames) = "status"
    /\ Send(_get(url_status, NoneDict, NoneDict), "wait")
    /\ UNCHANGED <<session, clock, frames, args, client, resps, result, pre, handles, prev, config, mt>>

Recv_status == RecvWhole("status", 200, DataBodies)

Call_enrollment_start ==
    \E p \in {None, "1234"} :
        Call("enrollment_start",
             [name |-> <<"a", "l", "i", "c", "e">>, pin |-> p, phone_number |-> None],
             TRUE)

enrollment_start_data(a) ==
    (IF Truthy(a.phone_number) THEN [phone_number |-> a.phone_number] ELSE EmptyDict)
    @@ (IF Truthy(a.pin) THEN [pin |-> a.pin] ELSE EmptyDict)
    @@ [name |-> a.name]

Send_enrollment_start ==
    /\ pc = "body"
    /\ Top(frames) = "enrollment_start"
    /\ Send(_post(url_enrollments, enrollment_start_data(args), NoneDict), "wait")
    /\ UNCHANGED <<session, clock, frames, args, client, resps, result, pre, handles, prev, config, mt>>

Recv_enrollment_start == RecvWhole("enrollment_start", 201, DataBodies)

(***************************************************************************)
(* client_id and the client-addressed operations                           *)
(***************************************************************************)
Call_client_id == \E c \in {<<"a", "l", "i", "c", "e">>, Rep("a", IdLen)} : Call("client_id", [client |-> c], TRUE)

Send_client_id ==
    /\ pc = "body"
    /\ Top(frames) = "client_id"
    /\ Send(_get(url_clients, [name |-> args.client], NoneDict), "wait")
    /\ UNCHANGED <<session, clock, frames, args, client, resps, result, pre, handles, prev, config, mt>>

\* The response to GET clients?name=...: the rest of client_id and, when the
\* call came from _client_id, the rest of _client_id in the caller.
Recv_client_id ==
    /\ pc = "wait"
    /\ Top(frames) = "client_id"
    /\ \E status \in StatusCodes : \E body \in BodiesFor(status, 200, LookupBodies) :
         LET chk == _check_response(status, 200)
             r   == _create_response(body)
             id  == GetId(r, "client_id")
         IN  /\ resps' = Append(resps, Response(status, body))
             /\ IF chk # "ok"
                THEN Finish(Raised(chk)) /\ UNCHANGED <<frames, client>>
                ELSE IF r = NoneDict
                THEN Finish(Raised("AttributeError")) /\ UNCHANGED <<frames, client>>
                ELSE IF Len(frames) = 1
                THEN Finish(Returned(ValId(id))) /\ UNCHANGED <<frames, client>>
                ELSE IF _client_id_check(id) # "ok"
                THEN Finish(Raised(_client_id_check(id))) /\ UNCHANGED <<frames, client>>
                ELSE /\ client' = id
                     /\ frames' = SubSeq(frames, 1, Len(frames) - 1)
                     /\ pc' = "resolved"
                     /\ UNCHANGED result
    /\ UNCHANGED <<session, clock, args, reqs, pre, handles, prev, config, mt>>

\* _client_id up to its call of client_id
_client_id ==
    /\ pc = "body"
    /\ Top(frames) \in ClientAddressed
    /\ IF ~re_match(args.client)
       THEN /\ frames' = Append(frames, "client_id")
            /\ pc' = "guard"
            /\ UNCHANGED <<client, result>>
       ELSE IF _client_id_check(args.client) # "ok"
       THEN Finish(Raised(_client_id_check(args.client))) /\ UNCHANGED <<frames, client>>
       ELSE /\ client' = args.client
            /\ pc' = "resolved"
            /\ UNCHANGED <<frames, result>>
    /\ UNCHANGED <<session, clock, args, reqs, resps, pre, handles, prev, config, mt>>

Call_client_info == \E c \in ClientArgs : Call("client_info", [client |-> c], TRUE)

Send_client_info ==
    /\ pc = "resolved"
    /\ Top(frames) = "client_info"
    /\ Send(_get(url_clients_id(client), NoneDict, NoneDict), "wait")
    /\ UNCHANGED <<session, clock, frames, args, client, resps, result, pre, handles, prev, config, mt>>

Recv_client_info == RecvWhole("client_info", 200, DataBodies)

Call_client_validate_pin ==
    \E c \in ClientArgs : Call("client_validate_pin", [client |-> c, pin |-> "9999"], TRUE)

Send_client_validate_pin ==
    /\ pc = "resolved"
    /\ Top(frames) = "client_validate_pin"
    /\ Send(_put(url_clients_id(client),
                 [action |-> "validate_pin", current_pin |-> args.pin],
                 NoneDict, NoneDict), "wait")
    /\ UNCHANGED <<session, clock, frames, args, client, resps, result, pre, handles, prev, config, mt>>

Recv_client_validate_pin == RecvNothing("client_validate_pin", 200, DataBodies)

(***************************************************************************)
(* report_events, report_verifications                                     *)
(***************************************************************************)
Call_report_verifications ==
    \E sd \in DateInputs, ed \in DateInputs :
        Call("report_verifications", [start_date |-> sd, end_date |-> ed], TRUE)

Send_report_verifications ==
    /\ pc = "body"
    /\ Top(frames) = "report_verifications"
    /\ LET f == _format_input_dates(args.start_date, args.end_date)
       IN  IF f.exc # "ok"
           THEN Finish(Raised(f.exc)) /\ UNCHANGED reqs
           ELSE /\ Send(_get(url_reports_verifications,
                             [start_date |-> f.start_str, end_date |-> f.end_str],
                             NoneDict), "wait")
                /\ UNCHANGED result
    /\ UNCHANGED <<session, clock, frames, args, client, resps, pre, handles, prev, config, mt>>

Recv_report_verifications == RecvWhole("report_verifications", 200, DataBodies)

Call_report_events ==
    \E sd \in DateInputs, ed \in DateInputs, ty \in {"system", "clients"} :
        Call("report_events", [start_date |-> sd, end_date |-> ed, type |-> ty], TRUE)

Send_report_events ==
    /\ pc = "body"
    /\ Top(frames) = "report_events"
    /\ LET f == _format_input_dates(args.start_date, args.end_date)
           endpoint == IF args.type = "clients" THEN url_reports_events_clients
                       ELSE url_reports_events_system
       IN  IF f.exc # "ok"
           THEN Finish(Raised(f.exc)) /\ UNCHANGED reqs
           ELSE /\ Send(_get(endpoint,
                             [start_date |-> f.start_str, end_date |-> f.end_str],
                             NoneDict), "wait")
                /\ UNCHANGED result
    /\ UNCHANGED <<session, clock, frames, args, client, resps, pre, handles, prev, config, mt>>

\* self._check_response(response, 200); return self._create_response(response).get("events")
Recv_report_events ==
    /\ pc = "wait"
    /\ Top(frames) = "report_events"
    /\ \E status \in StatusCodes : \E body \in BodiesFor(status, 200, EventBodies) :
         LET chk == _check_response(status, 200)
             r   == _create_response(body)
         IN  /\ resps' = Append(resps, Response(status, body))
             /\ Finish(IF chk # "ok" THEN Raised(chk)
                       ELSE IF r = NoneDict THEN Raised("AttributeError")
                       ELSE IF "events" \in DOMAIN r
                       THEN Returned([t |-> "list", v |-> r.events])
                       ELSE Returned(ValNone))
    /\ UNCHANGED <<session, clock, frames, args, client, reqs, pre, handles, prev, config, mt>>

(***************************************************************************)
(* The settings operations                                                 *)
(***************************************************************************)
\* The attributes __init__ gives the instance
Self == [_server |-> _server, _apikey |-> _apikey, _secret |-> _secret,
         _last_auth |-> _last_auth, _auth_token |-> _auth_token,
         _headers |-> _headers, version |-> "1.0.9"]

\* self.<name>
getattr(name) ==
    IF name \in DOMAIN Self THEN [exc |-> "ok", val |-> Self[name]]
    ELSE [exc |-> "AttributeError"]

SettingsOps == {"settings_module_update", "settings_module_reset",
                "settings_system_update", "settings_system_reset"}

Call_settings_module_update ==
    \E d \in {None, "audiopin"} :
        Call("settings_module_update",
             [mode_audiopin_enable |-> None, mode_audiopass_enable |-> None,
              mode_default |-> d], TRUE)

settings_module_update_body(a, password) ==
    (IF Truthy(a.mode_default) THEN [mode_default |-> a.mode_default] ELSE EmptyDict)
    @@ (IF Truthy(a.mode_audiopass_enable)
        THEN [mode_audiopass_enable |-> a.mode_audiopass_enable] ELSE EmptyDict)
    @@ (IF Truthy(a.mode_audiopin_enable)
        THEN [mode_audiopin_enable |-> a.mode_audiopin_enable] ELSE EmptyDict)
    @@ [auth_password |-> password]

Send_settings_module_update ==
    /\ pc = "body"
    /\ Top(frames) = "settings_module_update"
    /\ LET pw == getattr("_password")
       IN  IF pw.exc # "ok"
           THEN Finish(Raised(pw.exc)) /\ UNCHANGED reqs
           ELSE /\ Send(_put(url_settings_modules,
                             settings_module_update_body(args, pw.val),
                             NoneDict, NoneDict), "wait")
                /\ UNCHANGED result
    /\ UNCHANGED <<session, clock, frames, args, client, resps, pre, handles, prev, config, mt>>

Call_settings_module_reset == Call("settings_module_reset", EmptyDict, TRUE)

Send_settings_module_reset ==
    /\ pc = "body"
    /\ Top(frames) = "settings_module_reset"
    /\ LET pw == getattr("_password")
       IN  IF pw.exc # "ok"
           THEN Finish(Raised(pw.exc)) /\ UNCHANGED reqs
           ELSE /\ Send(_delete(url_settings_modules, [auth_password |-> pw.val],
                                NoneDict), "wait")
                /\ UNCHANGED result
    /\ UNCHANGED <<session, clock, frames, args, client, resps, pre, handles, prev, config, mt>>

Call_settings_system_update ==
    \E d \in {EmptyDict, [password_min_length |-> "8"]} :
        Call("settings_system_update", [data |-> d], TRUE)

Send_settings_system_update ==
    /\ pc = "body"
    /\ Top(frames) = "settings_system_update"
    /\ LET pw == getattr("_password")
       IN  IF pw.exc # "ok"
           THEN Finish(Raised(pw.exc)) /\ UNCHANGED <<reqs, args>>
           ELSE /\ args' = [data |-> DictUpdate(args.data, [auth_password |-> pw.val])]
                /\ Send(_put(url_settings_system, args'.data, NoneDict, NoneDict), "wait")
                /\ UNCHANGED result
    /\ UNCHANGED <<session, clock, frames, client, resps, pre, handles, prev, config, mt>>

Call_settings_system_reset == Call("settings_system_reset", EmptyDict, TRUE)

Send_settings_system_reset ==
    /\ pc = "body"
    /\ Top(frames) = "settings_system_reset"
    /\ LET pw == getattr("_password")
       IN  IF pw.exc # "ok"
           THEN Finish(Raised(pw.exc)) /\ UNCHANGED reqs
           ELSE /\ Send(_delete(url_settings_system, [auth_password |-> pw.val],
                                NoneDict), "wait")
                /\ UNCHANGED result
    /\ UNCHANGED <<session, clock, frames, args, client, resps, pre, handles, prev, config, mt>>

(***************************************************************************)
(* verification_start, verification_cancel                                 *)
(***************************************************************************)
\* The value a keyword parameter takes: the caller's, or the default of the signature
Param(supplied, name, value, default) == IF name \in supplied THEN value ELSE default

Call_verification_start ==
    \E S \in {{}, {"mode"}, {"row_doubling"},
               {"mode", "verification_speed", "row_doubling", "phone_number"}} :
        Call("verification_start",
             [client |-> <<"a", "l", "i", "c", "e">>,
              mode |-> Param(S, "mode", "audiopin", None),
              verification_speed |-> Param(S, "verification_speed", "50", None),
              row_doubling |-> Param(S, "row_doubling", "train", "off"),
              phone_number |-> Param(S, "phone_number", "5550100", None),
              supplied |-> S], TRUE)

verification_start_data(a) ==
    (IF Truthy(a.row_doubling) THEN [row_doubling |-> a.row_doubling] ELSE EmptyDict)
    @@ (IF Truthy(a.verification_speed)
        THEN [verification_speed |-> a.verification_speed] ELSE EmptyDict)
    @@ (IF Truthy(a.phone_number) THEN [phone_number |-> a.phone_number] ELSE EmptyDict)
    @@ (IF Truthy(a.mode) THEN [mode |-> a.mode] ELSE EmptyDict)
    @@ [name |-> a.client, user_agent |-> "knuverse-sdk-python-v" \o Self.version]

Send_verification_start ==
    /\ pc = "body"
    /\ Top(frames) = "verification_start"
    /\ Send(_post(url_verifications, verification_start_data(args), NoneDict), "wait")
    /\ UNCHANGED <<session, clock, frames, args, client, resps, result, pre, handles, prev, config, mt>>

Recv_verification_start == RecvWhole("verification_start", 201, DataBodies)

Call_verification_cancel ==
    \E S \in {{}, {"reason"}} :
        Call("verification_cancel",
             [verification_id |-> ServerId,
              reason |-> Param(S, "reason", "mistake", None),
              supplied |-> S], TRUE)

verification_cancel_data(a) == [cancel |-> TRUE, cancel_reason |-> a.reason]

Send_verification_cancel ==
    /\ pc = "body"
    /\ Top(frames) = "verification_cancel"
    /\ Send(_put(url_verifications_id(args.verification_id),
                 verification_cancel_data(args), NoneDict, NoneDict), "wait")
    /\ UNCHANGED <<session, clock, frames, args, client, resps, result, pre, handles, prev, config, mt>>

(***************************************************************************)
(* auth_grant                                                              *)
(***************************************************************************)
Call_auth_grant ==
    \E S \in {{}, {"role"}, {"role", "mode"}} :
        Call("auth_grant",
             [client |-> <<"a", "l", "i", "c", "e">>,
              role |-> Param(S, "role", "grant_enroll", None),
              mode |-> Param(S, "mode", "audiopin", None),
              supplied |-> S], TRUE)

auth_grant_body(a) ==
    (IF Truthy(a.mode) THEN [mode |-> a.mode] ELSE EmptyDict)
    @@ (IF Truthy(a.role) THEN [role |-> a.role] ELSE EmptyDict)
    @@ [name |-> a.client]

Send_auth_grant ==
    /\ pc = "body"
    /\ Top(frames) = "auth_grant"
    /\ LET u == url_getattr("auth_grant")
       IN  IF u.exc # "ok"
           THEN Finish(Raised(u.exc)) /\ UNCHANGED reqs
           ELSE /\ Send(_post(u.val, auth_grant_body(args), NoneDict), "wait")
                /\ UNCHANGED result
    /\ UNCHANGED <<session, clock, frames, args, client, resps, pre, handles, prev, config, mt>>

(***************************************************************************)
(* The operations that end with the status check, or with the status check *)
(* and `return self._create_response(response)`                            *)
(***************************************************************************)
Checked == [verification_cancel |-> [expected |-> 202, whole |-> FALSE],
            settings_module_update |-> [expected |-> 200, whole |-> FALSE],
            settings_module_reset |-> [expected |-> 204, whole |-> FALSE],
            settings_system_update |-> [expected |-> 200, whole |-> FALSE],
            settings_system_reset |-> [expected |-> 204, whole |-> FALSE],
            auth_grant |-> [expected |-> 200, whole |-> TRUE]]

Recv_checked ==
    \E op \in DOMAIN Checked :
        IF Checked[op].whole
        THEN RecvWhole(op, Checked[op].expected, DataBodies)
        ELSE RecvNothing(op, Checked[op].expected, DataBodies)

(***************************************************************************)
(* events_login, events_system                                             *)
(***************************************************************************)
\* self._create_response(response).get("events")
get_events(body) ==
    LET r == _create_response(body)
    IN  IF r = NoneDict THEN Raised("AttributeError")
        ELSE IF "events" \in DOMAIN r THEN Returned([t |-> "list", v |-> r.events])
        ELSE Returned(ValNone)

Call_events_login == Call("events_login", EmptyDict, TRUE)

Send_events_login ==
    /\ pc = "body"
    /\ Top(frames) = "events_login"
    /\ Send(_get(url_events_logins, NoneDict, NoneDict), "wait")
    /\ UNCHANGED <<session, clock, frames, args, client, resps, result, pre, handles, prev, config, mt>>

\* The body is decoded whatever the status is: the status is never looked at
Recv_events_login ==
    /\ pc = "wait"
    /\ Top(frames) = "events_login"
    /\ \E status \in StatusCodes : \E body \in EventBodies :
         /\ resps' = Append(resps, Response(status, body))
         /\ Finish(get_events(body))
    /\ UNCHANGED <<session, clock, frames, args, client, reqs, pre, handles, prev, config, mt>>

Call_events_system == Call("events_system", EmptyDict, TRUE)

Send_events_system ==
    /\ pc = "body"
    /\ Top(frames) = "events_system"
    /\ Send(_get(url_events_system, NoneDict, NoneDict), "wait")
    /\ UNCHANGED <<session, clock, frames, args, client, resps, result, pre, handles, prev, config, mt>>

Recv_events_system ==
    /\ pc = "wait"
    /\ Top(frames) = "events_system"
    /\ \E status \in StatusCodes : \E body \in BodiesFor(status, 200, EventBodies) :
         LET chk == _check_response(status, 200)
         IN  /\ resps' = Append(resps, Response(status, body))
             /\ Finish(IF chk # "ok" THEN Raised(chk) ELSE get_events(body))
    /\ UNCHANGED <<session, clock, frames, args, client, reqs, pre, handles, prev, config, mt>>

(***************************************************************************)
(* enrollment_upload, verification_upload                                  *)
(***************************************************************************)
NoPath == <<>>

AudioFile == <<"recordings", "alice.wav">>

basename(path) == path[Len(path)]

\* open(audio_file, 'rb')
open(path) == [handle |-> path]

UploadOps == {"enrollment_upload", "verification_upload"}

Call_enrollment_upload ==
    Call("enrollment_upload", [enrollment_id |-> ServerId, audio_file |-> AudioFile], TRUE)

enrollment_upload_files(a) ==
    (basename(a.audio_file) :> open(a.audio_file)) @@ [file |-> basename(a.audio_file)]

Call_verification_upload ==
    \E S \in {{}, {"audio_file"}, {"bypass"}, {"bypass", "bypass_pin", "bypass_code"}} :
        Call("verification_upload",
             [verification_id |-> ServerId,
              audio_file |-> Param(S, "audio_file", AudioFile, NoPath),
              bypass |-> Param(S, "bypass", TRUE, FALSE),
              bypass_pin |-> Param(S, "bypass_pin", "1234", None),
              bypass_code |-> Param(S, "bypass_code", "code", None),
              supplied |-> S], TRUE)

verification_upload_files(a) ==
    IF TruthyStr(a.audio_file)
    THEN (basename(a.audio_file) :> open(a.audio_file)) @@ [file |-> basename(a.audio_file)]
    ELSE IF a.bypass
    THEN [bypass |-> TRUE, bypass_code |-> a.bypass_code, pin |-> a.bypass_pin]
    ELSE EmptyDict

\* The files opened while building the dictionary `files`
Opened(files) == {files[k] : k \in {j \in DOMAIN files : j \notin {"file", "bypass", "bypass_code", "pin"}}}

\* The body of an upload up to its request; open() fails on a file that cannot be read
SendUpload(uri, files, opens) ==
    \E readable \in BOOLEAN :
        IF opens /\ ~readable
        THEN Finish(Raised("IOError")) /\ UNCHANGED <<reqs, handles>>
        ELSE /\ handles' = handles \cup Opened(files)
             /\ Send(_put(uri, NoneDict, files, NoneDict), "wait")
             /\ UNCHANGED result

Send_enrollment_upload ==
    /\ pc = "body"
    /\ Top(frames) = "enrollment_upload"
    /\ SendUpload(url_enrollments_id(args.enrollment_id), enrollment_upload_files(args), TRUE)
    /\ UNCHANGED <<session, clock, frames, args, client, resps, pre, prev, config, mt>>

Send_verification_upload ==
    /\ pc = "body"
    /\ Top(frames) = "verification_upload"
    /\ SendUpload(url_verifications_id(args.verification_id), verification_upload_files(args),
                  TruthyStr(args.audio_file))
    /\ UNCHANGED <<session, clock, frames, args, client, resps, pre, prev, config, mt>>

\* The rest of an upload.  No statement closes the file: the object is
\* finalized when nothing refers to it any more.  A raised exception keeps the
\* frame, and with it `files`, alive in its traceback; after a return the
\* moment of finalization depends on the interpreter.
RecvUpload(op, whole) ==
    /\ pc = "wait"
    /\ Top(frames) = op
    /\ \/ /\ Finish(Raised("ConnectionError"))
          /\ UNCHANGED <<resps, handles>>
       \/ \E status \in StatusCodes : \E body \in BodiesFor(status, 202, DataBodies) :
            LET chk == _check_response(status, 202)
            IN  /\ resps' = Append(resps, Response(status, body))
                /\ IF chk # "ok"
                   THEN Finish(Raised(chk)) /\ UNCHANGED handles
                   ELSE /\ Finish(IF whole THEN Returned(ValOf(_create_response(body)))
                                  ELSE Returned(ValNone))
                        /\ \E finalized \in BOOLEAN :
                             handles' = IF finalized THEN {} ELSE handles
    /\ UNCHANGED <<session, clock, frames, args, client, reqs, pre, prev, config, mt>>

Recv_enrollment_upload == RecvUpload("enrollment_upload", FALSE)

Recv_verification_upload == RecvUpload("verification_upload", TRUE)

(***************************************************************************)
(* The specification                                                       *)
(***************************************************************************)
Next ==
    \/ Call__get \/ Send__get \/ Call__post \/ Send__post \/ Recv_transport
    \/ Call_auth_refresh \/ Send_auth_refresh
    \/ Guard \/ AuthRecv
    \/ Call_about \/ Send_about \/ Recv_about
    \/ Call_status \/ Send_status \/ Recv_status
    \/ Call_enrollment_start \/ Send_enrollment_start \/ Recv_enrollment_start
    \/ Call_client_id \/ Send_client_id \/ Recv_client_id
    \/ _client_id
    \/ Call_client_info \/ Send_client_info \/ Recv_client_info
    \/ Call_client_validate_pin \/ Send_client_validate_pin \/ Recv_client_validate_pin
    \/ Call_report_verifications \/ Send_report_verifications \/ Recv_report_verifications
    \/ Call_report_events \/ Send_report_events \/ Recv_report_events
    \/ Call_settings_module_update \/ Send_settings_module_update
    \/ Call_settings_module_reset \/ Send_settings_module_reset
    \/ Call_settings_system_update \/ Send_settings_system_update
    \/ Call_settings_system_reset \/ Send_settings_system_reset
    \/ Call_verification_start \/ Send_verification_start \/ Recv_verification_start
    \/ Call_verification_cancel \/ Send_verification_cancel
    \/ Call_auth_grant \/ Send_auth_grant
    \/ Recv_checked
    \/ Call_events_login \/ Send_events_login \/ Recv_events_login
    \/ Call_events_system \/ Send_events_system \/ Recv_events_system
    \/ Call_enrollment_upload \/ Send_enrollment_upload \/ Recv_enrollment_upload
    \/ Call_verification_upload \/ Send_verification_upload \/ Recv_verification_upload
    \/ Tick
    \/ Return

Spec == Init /\ [][Next]_vars

(***************************************************************************)
(* Two threads calling status() on one session.  Nothing in the class      *)
(* serializes them, so their statements interleave; each thread makes one  *)
(* call.  auth_refresh is cut at its three assignments (lines 183, 185 and *)
(* 186); the condition of the guard is evaluated in one step, at the       *)
(* moment it reads the clock.  The session the threads start with is a new *)
(* one, or one that authenticated at time 0.                               *)
(***************************************************************************)
call == <<pc, frames, args, client, reqs, resps, result, pre, handles, prev>>

InitMT ==
    /\ pc = "idle" /\ frames = <<>> /\ args = EmptyDict /\ client = NoId
    /\ reqs = <<>> /\ resps = <<>> /\ result = NoResult /\ pre = NoPre
    /\ _server = "https://cloud.knuverse.com/api/v1/"
    /\ _apikey = "APIKEY"
    /\ _secret = "SECRET"
    /\ handles = {}
    /\ prev = NoPrev
    /\ clock = 0
    /\ \/ /\ _auth_token = None
          /\ _last_auth = NoTime
          /\ _headers = InitHeaders
       \/ /\ _auth_token = "t0"
          /\ _last_auth = 0
          /\ _headers = DictUpdate(InitHeaders, [Authorization |-> Bearer("t0")])
    /\ tpc = [t \in Threads |-> "idle"]
    /\ tjwt = [t \in Threads |-> None]
    /\ treqs = [t \in Threads |-> <<>>]

MT_Call(t) ==
    /\ tpc[t] = "idle"
    /\ tpc' = [tpc EXCEPT ![t] = "guard"]
    /\ UNCHANGED <<session, clock, tjwt, treqs, config, call>>

MT_Guard(t) ==
    /\ tpc[t] = "guard"
    /\ CASE _auth = "refresh" ->
                /\ treqs' = [treqs EXCEPT ![t] = Append(@, auth_token(None, None))]
                /\ tpc' = [tpc EXCEPT ![t] = "auth_wait"]
         [] _auth = "proceed" ->
                /\ tpc' = [tpc EXCEPT ![t] = "body"]
                /\ UNCHANGED treqs
         [] OTHER ->
                /\ tpc' = [tpc EXCEPT ![t] = "TypeError"]
                /\ UNCHANGED treqs
    /\ UNCHANGED <<session, clock, tjwt, config, call>>

\* jwt = self.auth_token(...)
MT_AuthRecv(t) ==
    /\ tpc[t] = "auth_wait"
    /\ \E status \in StatusCodes : \E body \in BodiesFor(status, 200, AuthBodies) :
         LET chk == _check_response(status, 200)
             r   == _create_response(body)
         IN  IF chk # "ok"
             THEN tpc' = [tpc EXCEPT ![t] = chk] /\ UNCHANGED tjwt
             ELSE IF r = NoneDict
             THEN tpc' = [tpc EXCEPT ![t] = "AttributeError"] /\ UNCHANGED tjwt
             ELSE /\ tjwt' = [tjwt EXCEPT ![t] = GetStr(r, "jwt")]
                  /\ tpc' = [tpc EXCEPT ![t] = "set_header"]
    /\ UNCHANGED <<session, clock, treqs, config, call>>

\* self._headers["Authorization"] = "Bearer %s" % jwt
MT_SetHeader(t) ==
    /\ tpc[t] = "set_header"
    /\ _headers' = auth_refresh_headers(tjwt[t])
    /\ tpc' = [tpc EXCEPT ![t] = "set_token"]
    /\ UNCHANGED <<_auth_token, _last_auth, clock, tjwt, treqs, config, call>>

\* self._auth_token = jwt
MT_SetToken(t) ==
    /\ tpc[t] = "set_token"
    /\ _auth_token' = tjwt[t]
    /\ tpc' = [tpc EXCEPT ![t] = "set_time"]
    /\ UNCHANGED <<_headers, _last_auth, clock, tjwt, treqs, config, call>>

\* auth_refresh without line 186
MT_SetTime_skipped(t) ==
    /\ tpc[t] = "set_time"
    /\ tpc' = [tpc EXCEPT ![t] = "body"]
    /\ UNCHANGED <<session, clock, tjwt, treqs, config, call>>

\* self._last_auth = datetime.utcnow()
MT_SetTime(t) ==
    /\ tpc[t] = "set_time"
    /\ _last_auth' = clock
    /\ tpc' = [tpc EXCEPT ![t] = "body"]
    /\ UNCHANGED <<_headers, _auth_token, clock, tjwt, treqs, config, call>>

MT_Send(t) ==
    /\ tpc[t] = "body"
    /\ treqs' = [treqs EXCEPT ![t] = Append(@, _get(url_status, NoneDict, NoneDict))]
    /\ tpc' = [tpc EXCEPT ![t] = "wait"]
    /\ UNCHANGED <<session, clock, tjwt, config, call>>

MT_Recv(t) ==
    /\ tpc[t] = "wait"
    /\ \E status \in StatusCodes :
         LET chk == _check_response(status, 200)
         IN  tpc' = [tpc EXCEPT ![t] = IF chk # "ok" THEN chk ELSE "returned"]
    /\ UNCHANGED <<session, clock, tjwt, treqs, config, call>>

MT_Tick ==
    /\ clock < MaxClock
    /\ clock' = clock + 1
    /\ UNCHANGED <<session, mt, config, call>>

NextMT ==
    \/ \E t \in Threads :
          \/ MT_Call(t) \/ MT_Guard(t) \/ MT_AuthRecv(t)
          \/ MT_SetHeader(t) \/ MT_SetToken(t) \/ MT_SetTime(t)
          \/ MT_Send(t) \/ MT_Recv(t)
    \/ MT_Tick

SpecMT == InitMT /\ [][NextMT]_vars

(***************************************************************************)
(* Vocabulary of the properties                                            *)
(***************************************************************************)
IsAuthReq(r) == r.method = "POST" /\ r.uri = url_auth

IsLookupReq(r) == r.method = "GET" /\ r.uri = url_clients /\ "name" \in DOMAIN r.params

AuthIndexes == {i \in 1..Len(reqs) : IsAuthReq(reqs[i])}

LookupIndexes == {i \in 1..Len(reqs) : IsLookupReq(reqs[i])}

ProtectedOps == {"status", "enrollment_start", "client_id", "client_info",
                 "client_validate_pin", "report_verifications", "report_events",
                 "verification_start", "verification_cancel",
                 "enrollment_upload", "verification_upload",
                 "auth_grant", "events_login", "events_system"} \cup SettingsOps

ReportOps == {"report_verifications", "report_events"}

Running(ops) == frames # <<>> /\ frames[1] \in ops

\* The target request of the running operation has been issued and is the last one
TargetIssued == pc \in {"wait", "done"} /\ Len(frames) = 1 /\ reqs # <<>>
                /\ ~IsAuthReq(Last(reqs))

\* The status the code expects for request r
ExpectedOf(r) ==
    IF r.method = "POST" /\ r.uri \in {url_enrollments, url_verifications} THEN 201
    ELSE IF r.method = "PUT" /\ r.uri.tmpl \in {"enrollments/{id}", "verifications/{id}"} THEN 202
    ELSE IF r.method = "DELETE" THEN 204
    ELSE 200

\* The error kind the specification assigns to an unexpected status
KindOf(status) ==
    CASE status < 400 -> "UnexpectedResponseCodeException"
      [] status = 400 -> "BadRequestException"
      [] status = 401 -> "UnauthorizedException"
      [] status = 403 -> "ForbiddenException"
      [] status = 404 -> "NotFoundException"
      [] status = 429 -> "RateLimitedException"
      [] OTHER -> "InternalServerErrorException"

\* A 32-character lowercase-hex string
IsIdentifier(s) == Len(s) = IdLen /\ \A i \in 1..Len(s) : s[i] \in HexChars

BadDates == \/ args.start_date.type # "datetime"
            \/ args.end_date.type # "datetime"

\* The operations that hand no response of their own to _check_response
Unchecked == {"_get", "_post", "events_login"}

\* The response to request i of the running call is handed to _check_response
IsChecked(i) == IsAuthReq(reqs[i]) \/ frames[1] \notin Unchecked

\* Positions of a thread that has its jwt from auth_token
AfterAuth == {"set_header", "set_token", "set_time", "body", "wait", "returned"}
                \cup {KindOf(c) : c \in StatusCodes}

\* The content type request r goes out with, None when it has none
ContentTypeOf(r) ==
    LET h == sent_headers(r)
    IN  IF "Content-type" \in DOMAIN h THEN h["Content-type"]
        ELSE IF "Content-Type" \in DOMAIN h THEN h["Content-Type"]
        ELSE None

\* The guard of the running call let it through to the body of the operation
GuardPassed ==
    \/ pre.guard = "proceed"
    \/ pre.guard = "refresh" /\ resps # <<>>
          /\ resps[1].status = 200 /\ resps[1].body.json

\* The operations whose optional parameters the model tells apart as
\* supplied or omitted
OptionalOps == {"verification_start", "verification_cancel", "verification_upload"}

\* The optional parameter behind each payload key
KeyParam == [mode |-> "mode", phone_number |-> "phone_number",
             verification_speed |-> "verification_speed",
             row_doubling |-> "row_doubling", cancel_reason |-> "reason",
             bypass |-> "bypass", bypass_code |-> "bypass_code",
             pin |-> "bypass_pin", file |-> "audio_file"]

\* The keys of the payload of request r: body, query parameters, multipart fields
PayloadKeys(r) == DOMAIN DictOrEmpty(r.json) \cup DOMAIN DictOrEmpty(r.params)
                    \cup DOMAIN DictOrEmpty(r.files)

(***************************************************************************)
(* C1: a protected call made with no token or a stale token issues exactly *)
(* one authentication request before its target request, and the target    *)
(* request carries Authorization: Bearer <the token that authentication    *)
(* returned>, also when the client name is resolved by the nested lookup.  *)
(***************************************************************************)
C1_ExactlyOneAuthBeforeTarget ==
    (Running(ProtectedOps) /\ pre.guard = "refresh" /\ TargetIssued) =>
        /\ Cardinality(AuthIndexes) = 1
        /\ \A a \in AuthIndexes :
             /\ a < Len(reqs)
             /\ Last(reqs).headers["Authorization"]
                    = Bearer(GetStr(_create_response(resps[a].body), "jwt"))

C3_StatusMapping ==
    frames # <<>> =>
        \A i \in 1..Len(resps) :
            (IsChecked(i) /\ resps[i].status # ExpectedOf(reqs[i])) =>
                /\ i = Len(resps)
                /\ pc = "done"
                /\ result = Raised(KindOf(resps[i].status))

\* enrollment_start answered 400 (the client is already enrolled) raised BadRequest
C3_Witness ==
    /\ pc = "done"
    /\ frames = <<"enrollment_start">>
    /\ Len(resps) = Len(reqs) /\ ~IsAuthReq(Last(reqs))
    /\ Last(resps).status = 400
    /\ result = Raised("BadRequestException")

(***************************************************************************)
(* C4: when the response to the operation's request has the expected       *)
(* status, the call returns and raises no error, whatever the body is      *)
(* (empty, not JSON, or JSON without the extracted field).                 *)
(***************************************************************************)
C4_ExpectedStatusReturns ==
    ( /\ pc = "done"
      /\ Len(frames) = 1
      /\ resps # <<>>
      /\ Len(resps) = Len(reqs)
      /\ Last(resps).status = ExpectedOf(Last(reqs))
      /\ ~(frames[1] \in ReportOps /\ BadDates) )
    => result.kind = "return"

(***************************************************************************)
(* C5: once a token has been stored, every request issued afterwards, by   *)
(* any operation, carries Authorization: Bearer <the stored token> and     *)
(* Accept: application/json, whatever headers the caller supplied.         *)
(***************************************************************************)
C5_BearerOnEveryRequest ==
    [][ (reqs' # reqs /\ reqs' # <<>> /\ _last_auth # NoTime) =>
            /\ reqs' = Append(reqs, Last(reqs'))
            /\ Last(reqs').headers["Authorization"] = <<"Bearer", _auth_token>>
            /\ Last(reqs').headers["Accept"] = "application/json" ]_vars

\* _get was called with a forged Authorization header on a session holding a token
C5_Witness ==
    /\ pc = "wait"
    /\ frames = <<"_get">>
    /\ "Authorization" \in DOMAIN args.headers
    /\ Truthy(_auth_token)
    /\ args.headers["Authorization"] # <<"Bearer", _auth_token>>
    /\ Len(reqs) = 1

(***************************************************************************)
(* C6: about() never authenticates: in any session state it issues exactly *)
(* one GET to about and leaves the token, the time of the last             *)
(* authentication and the default headers unchanged.                       *)
(***************************************************************************)
C6_AboutNeverAuthenticates ==
    Running({"about"}) =>
        /\ _auth_token = pre.token
        /\ _last_auth = pre.last_auth
        /\ _headers = pre.headers
        /\ AuthIndexes = {}
        /\ pc = "body" => reqs = <<>>
        /\ pc \in {"wait", "done"} =>
              /\ Len(reqs) = 1
              /\ reqs[1].method = "GET"
              /\ reqs[1].uri = [tmpl |-> "about", id |-> <<>>]

\* about() has completed on a session whose token was stale
C6_Witness ==
    /\ pc = "done"
    /\ frames = <<"about">>
    /\ Truthy(pre.token)
    /\ clock >= pre.last_auth + 10
    /\ result.kind = "return"

(***************************************************************************)
(* C7: _client_id uses its argument as it is, with no lookup request, if   *)
(* and only if the argument is a 32-character lowercase-hex string; every  *)
(* other string is looked up by name before the target request.            *)
(***************************************************************************)
C7_LookupIffNotIdentifier ==
    (Running(ClientAddressed) /\ TargetIssued) =>
        (LookupIndexes = {} <=> IsIdentifier(args.client))

(***************************************************************************)
(* C8: when the lookup by name of a client-addressed operation fails to    *)
(* produce an identifier (a 200 without client_id, an undecodable body, an *)
(* error status), the operation raises NotFound and issues no target       *)
(* request.                                                                *)
(***************************************************************************)
ProducesId(resp) ==
    /\ resp.status = 200
    /\ resp.body.json
    /\ GetId(resp.body.fields, "client_id") # <<>>

LookupFailureKind(resp) ==
    IF resp.status # 200 THEN KindOf(resp.status)
    ELSE IF ~resp.body.json THEN "AttributeError"
    ELSE "NotFoundException"

NonAuth == SelectSeq(reqs, LAMBDA r : ~IsAuthReq(r))

C9_ValidatePinOrder ==
    (Running({"client_validate_pin"}) /\ ~IsIdentifier(args.client)) =>
        /\ Len(NonAuth) <= 2
        /\ Len(NonAuth) >= 1 =>
              /\ IsLookupReq(NonAuth[1])
              /\ NonAuth[1].params.name = args.client
        /\ Len(NonAuth) = 2 =>
              /\ \E k \in LookupIndexes : Len(resps) >= k /\ ProducesId(resps[k])
                    /\ NonAuth[2].uri = [tmpl |-> "clients/{id}",
                                         id |-> resps[k].body.fields.client_id]
              /\ NonAuth[2].method = "PUT"
              /\ NonAuth[2].json = [action |-> "validate_pin", current_pin |-> args.pin]
        /\ (pc = "done" /\ result.kind = "return") =>
              /\ Len(NonAuth) = 2
              /\ Last(resps).status = 200

(***************************************************************************)
(* C10: report_verifications and report_events called with a start_date or *)
(* end_date that is not a date-time value raise TypeError before any       *)
(* network request: in every session state no request at all is sent.      *)
(***************************************************************************)
C10_NoRequestOnBadDates ==
    (Running(ReportOps) /\ BadDates) =>
        /\ reqs = <<>>
        /\ pc = "done" => result = Raised("TypeError")

(***************************************************************************)
(* C10 as amended: with a start_date or end_date that is not a date-time   *)
(* value the report request is never sent.  With a fresh token no request  *)
(* is sent and TypeError is raised; with no token or a stale token the     *)
(* guard first sends one authentication request, and TypeError is raised   *)
(* if that authentication succeeds, its own error otherwise.               *)
(***************************************************************************)
C10_NoReportRequestOnBadDates ==
    (Running(ReportOps) /\ BadDates) =>
        /\ \A i \in 1..Len(reqs) : IsAuthReq(reqs[i])
        /\ Len(reqs) = IF pre.guard = "refresh" /\ pc # "guard" THEN 1 ELSE 0
        /\ pc = "done" =>
              /\ result.kind = "raise"
              /\ result.exc = "TypeError"
                    <=> (resps = <<>> \/ (Last(resps).status = 200 /\ Last(resps).body.json))
              /\ (resps # <<>> /\ Last(resps).status # 200)
                    => result.exc = KindOf(Last(resps).status)

\* a report call with a bad date on a session with no fresh token: the
\* authentication request went out, then TypeError
C10_Witness ==
    /\ pc = "done"
    /\ Running(ReportOps)
    /\ BadDates
    /\ pre.guard = "refresh"
    /\ Len(reqs) = 1 /\ IsAuthReq(reqs[1])
    /\ result = Raised("TypeError")

(***************************************************************************)
(* C11: a settings update or reset operation that got past the guard       *)
(* issues its request, and the payload's auth_password equals the          *)
(* password stored in the session; settings_module_update called with no   *)
(* optional argument sends a PUT whose payload has the key auth_password   *)
(* and no other.                                                           *)
(***************************************************************************)
C11_SettingsCarryPassword ==
    (Running(SettingsOps) /\ pc = "done" /\ GuardPassed) =>
        /\ TargetIssued
        /\ "auth_password" \in DOMAIN Last(reqs).json
        /\ "_password" \in DOMAIN Self
        /\ Last(reqs).json.auth_password = Self["_password"]
        /\ (frames[1] = "settings_module_update" /\ ~Truthy(args.mode_default)) =>
              /\ Last(reqs).method = "PUT"
              /\ DOMAIN Last(reqs).json = {"auth_password"}

(***************************************************************************)
(* C12: the payload of the target request (body, query parameters,        *)
(* multipart fields) has a key for an optional parameter only if the       *)
(* caller supplied that parameter.                                         *)
(***************************************************************************)
C12_OmittedNeverAppears ==
    (Running(OptionalOps) /\ TargetIssued) =>
        \A k \in PayloadKeys(Last(reqs)) \cap DOMAIN KeyParam :
            KeyParam[k] \in args.supplied

(***************************************************************************)
(* C13: when enrollment_upload or verification_upload returns or raises,   *)
(* no file opened by the call is still open.                               *)
(***************************************************************************)
C13_UploadsReleaseHandles ==
    (Running(UploadOps) /\ pc = "done") => handles = {}

(***************************************************************************)
(* C14: within one call each request is attempted at most once per guard   *)
(* or step (one authentication per guard, one name lookup, one target      *)
(* request), and a response whose status differs from the expected code    *)
(* is the last thing the call does: its error is raised to the caller and  *)
(* no further request is issued.                                           *)
(***************************************************************************)
C14_NoRetries ==
    (frames # <<>> /\ frames[1] \notin {"_get", "_post"}) =>
        /\ Cardinality(AuthIndexes) <= (IF frames[1] \in ClientAddressed THEN 2 ELSE 1)
        /\ Cardinality(LookupIndexes) <= 1
        /\ Cardinality((1..Len(reqs)) \ (AuthIndexes \cup LookupIndexes)) <= 1
        /\ \A i \in 1..Len(resps) :
              resps[i].status # ExpectedOf(reqs[i]) =>
                  /\ i = Len(reqs)
                  /\ pc = "done"
                  /\ result.kind = "raise"
                  /\ result.exc = KindOf(resps[i].status)

(***************************************************************************)
(* C15: when a client-addressed operation called with a name raised        *)
(* NotFound on a fresh token, and the same call is made again with the     *)
(* token still fresh and the server answering the lookup as before, the    *)
(* second call raises NotFound too, and neither call has changed the       *)
(* token, the time of the last authentication or the default headers.      *)
(***************************************************************************)
C15_NotFoundRepeats ==
    ( /\ pc = "done"
      /\ prev # NoPrev
      /\ FreshAtStart
      /\ \E i \in LookupIndexes : i <= Len(resps) /\ resps[i] = prev.lookup ) =>
        /\ result = Raised("NotFoundException")
        /\ session = <<pre.token, pre.last_auth, pre.headers>>
        /\ prev.unchanged

\* the second of two equal calls, both answered 200 with no client_id
C15_Witness ==
    /\ pc = "done"
    /\ prev # NoPrev
    /\ FreshAtStart
    /\ frames = <<"client_info", "client_id">>
    /\ args.client = <<"a", "l", "i", "c", "e">>
    /\ Last(resps) = prev.lookup
    /\ Last(resps).status = 200
    /\ result = Raised("NotFoundException")

(***************************************************************************)
(* C17: auth_grant, once past the guard, issues POST auth/grant with a     *)
(* body holding name and exactly the role and mode the caller supplied,    *)
(* and on status 200 returns the decoded body.                             *)
(***************************************************************************)
C17_AuthGrantPosts ==
    (Running({"auth_grant"}) /\ pc = "done" /\ GuardPassed) =>
        /\ TargetIssued
        /\ Last(reqs).method = "POST"
        /\ Last(reqs).uri = Format("auth/grant", NoId)
        /\ DOMAIN Last(reqs).json = {"name"} \cup args.supplied
        /\ Len(resps) = Len(reqs)
        /\ Last(resps).status = 200 =>
              result = Returned(ValOf(_create_response(Last(resps).body)))

(***************************************************************************)
(* C18: right after an authentication that was answered 200 and raised no  *)
(* error, the session is token-valid: the stored token is non-empty, the   *)
(* time of the last authentication is the current time, the default        *)
(* header Authorization is Bearer <that token>, and the guard of a         *)
(* protected call made now lets it through without authenticating.         *)
(***************************************************************************)
C18_AuthLeavesTokenValid ==
    ( /\ reqs # <<>> /\ Len(resps) = Len(reqs)
      /\ IsAuthReq(Last(reqs))
      /\ Last(resps).status = 200
      /\ result.kind # "raise" ) =>
        /\ Truthy(_auth_token)
        /\ _last_auth = clock
        /\ "Authorization" \in DOMAIN _headers
        /\ _headers["Authorization"] = Bearer(_auth_token)
        /\ _auth = "proceed"

(***************************************************************************)
(* C19: when the response to the request of an operation (its target       *)
(* request or its name lookup) has a status other than the expected code,  *)
(* the operation returns no value: it raises the error of that status.     *)
(***************************************************************************)
C19_EveryOperationChecks ==
    ( /\ frames # <<>> /\ frames[1] \notin {"_get", "_post"}
      /\ pc = "done"
      /\ reqs # <<>> /\ Len(resps) = Len(reqs)
      /\ ~IsAuthReq(Last(reqs))
      /\ Last(resps).status # ExpectedOf(Last(reqs)) ) =>
        /\ result.kind # "return"
        /\ result = Raised(KindOf(Last(resps).status))

(***************************************************************************)
(* C20: a step changes the token, the time of the last authentication or   *)
(* the default headers only if it is the step of auth_refresh that         *)
(* receives the answer 200 to an authentication request; every other step  *)
(* leaves all three as they were, and no step changes the server base URL, *)
(* the API key or the secret.                                              *)
(***************************************************************************)
C20_SessionChangedOnlyByAuth ==
    [][ /\ session' # session =>
              /\ pc = "auth_wait"
              /\ IsAuthReq(Last(reqs))
              /\ Len(resps') = Len(reqs)
              /\ Last(resps').status = 200
        /\ config' = config ]_vars

\* a protected call with a fresh token ran to its end, request and response
\* included, and the session is what it was when the call began
C20_Witness ==
    /\ pc = "done"
    /\ Running(ProtectedOps)
    /\ pre.guard = "proceed"
    /\ TargetIssued
    /\ Len(resps) = Len(reqs)
    /\ session = <<pre.token, pre.last_auth, pre.headers>>
    /\ config = <<"https://cloud.knuverse.com/api/v1/", "APIKEY", "SECRET">>

(***************************************************************************)
(* C16: with two threads on one session, a thread that authenticated in    *)
(* its call sends its target request with an Authorization header, and     *)
(* the token in it is one that an authentication of either thread          *)
(* returned: its own or the other thread's.                                *)
(***************************************************************************)
C16_TokenOfEitherThread ==
    \A t \in Threads :
        (Len(treqs[t]) = 2) =>
            /\ "Authorization" \in DOMAIN treqs[t][2].headers
            /\ \E u \in Threads :
                  /\ Len(treqs[u]) >= 1 /\ IsAuthReq(treqs[u][1])
                  /\ tpc[u] \in AfterAuth
                  /\ treqs[t][2].headers["Authorization"] = Bearer(tjwt[u])

\* both threads found no fresh token and both authenticated; thread 1 got
\* t1, thread 2 got t2, and the target request of thread 1 carries t2
C16_Witness ==
    /\ \A t \in Threads : Len(treqs[t]) >= 1 /\ IsAuthReq(treqs[t][1])
    /\ tjwt[1] = "t1" /\ tjwt[2] = "t2"
    /\ Len(treqs[1]) = 2
    /\ treqs[1][2].headers["Authorization"] = Bearer("t2")

C22_FailedAuthChangesNothing ==
    /\ [][ ( /\ pc = "auth_wait"
             /\ Running(ProtectedOps)
             /\ Len(resps') = Len(resps) + 1
             /\ Last(resps').status # 200 ) =>
              /\ session' = session
              /\ reqs' = reqs
              /\ pc' = "done"
              /\ result' = Raised(KindOf(Last(resps').status)) ]_vars
    /\ []( ( /\ pc = "done"
             /\ Running(ProtectedOps)
             /\ reqs # <<>> /\ Len(resps) = Len(reqs)
             /\ IsAuthReq(Last(reqs))
             /\ Last(resps).status # 200 ) =>
              /\ result.kind = "raise"
              /\ \A i \in 1..Len(reqs) : IsAuthReq(reqs[i]) )

\* a protected call found its token t1 stale, the authentication was
\* answered 401: Unauthorized reached the caller, t1 and its time are kept
C22_Witness ==
    /\ pc = "done"
    /\ Running(ProtectedOps)
    /\ pre.guard = "refresh"
    /\ pre.token = "t1"
    /\ Len(reqs) = 1 /\ IsAuthReq(reqs[1])
    /\ resps = <<Response(401, NoJson)>>
    /\ result = Raised("UnauthorizedException")
    /\ session = <<pre.token, pre.last_auth, pre.headers>>
    /\ _headers["Authorization"] = Bearer("t1")

(***************************************************************************)
(* C23: in every state in which the guard of some thread can run, a        *)
(* non-empty stored token implies that the time of the last                *)
(* authentication is set, so the guard never compares against a missing    *)
(* time; the states another thread's auth_refresh passes through between   *)
(* storing the token and storing the time are included.                    *)
(***************************************************************************)
C23_TokenImpliesTimestamp ==
    (\E t \in Threads : tpc[t] = "guard") =>
        (Truthy(_auth_token) => _last_auth # NoTime)

(***************************************************************************)
(* C23 as amended: a non-empty token is stored with no time of the last    *)
(* authentication only while some thread is inside auth_refresh between    *)
(* storing the token (line 185) and storing the time (line 186); the guard *)
(* of a thread fails on the missing time only in such a state, with        *)
(* another thread at that point.  So the guard never meets a missing time  *)
(* when the calls on the session are serialized.                           *)
(***************************************************************************)
C23_TimestampMissingOnlyInsideRefresh ==
    /\ []( (Truthy(_auth_token) /\ _last_auth = NoTime) =>
              \E u \in Threads : tpc[u] = "set_time" )
    /\ [][ \A t \in Threads :
              (tpc[t] = "guard" /\ tpc'[t] = "TypeError") =>
                  \E u \in Threads \ {t} : tpc[u] = "set_time" ]_vars

\* thread 1 has stored its token and not yet the time; the guard of
\* thread 2 ran in that state and failed with TypeError
C23_Witness ==
    /\ tpc[1] = "set_time"
    /\ tpc[2] = "TypeError"
    /\ Truthy(_auth_token)
    /\ _last_auth = NoTime

====
